---- MODULE Spec2Model ----
(***************************************************************************)
(* A model of the UEAgentForge Python client                                *)
(* (src/PythonClient/ueagentforge_client.py): the transport (_send), the    *)
(* result model (ForgeResult.from_response), the policy gate                *)
(* (enforce_constitution as used by spawn_actor), the operation surface     *)
(* and the transaction scope (_TransactionContext), driven by a caller      *)
(* script and a host that answers every request as it likes.                *)
(***************************************************************************)
EXTENDS Integers, Sequences, FiniteSets, TLC

VARIABLES
    verify,   \* AgentForgeClient.verify, fixed by the constructor
    sent,     \* every request handed to the session, in order: [cmd, args, scope]
    stack,    \* the open `with client.transaction(...)` blocks, innermost last
    scopes,   \* one record per transaction context ever entered
    exc,      \* the exception now propagating in the caller, or NoExc
    last,     \* what the most recent client call did
    base_url, \* AgentForgeClient.base_url, fixed by the constructor
    io        \* the argument, the host's reply and the return value of the
              \* most recent single-command call (ping, create_snapshot,
              \* run_verification)

vars == <<verify, sent, stack, scopes, exc, last, base_url, io>>

(***************************************************************************)
(* Bounds of the model.                                                     *)
(***************************************************************************)
MaxSent == 3
MaxScopes == 2
MaxDepth == 2
MaxCallLog == 1

(***************************************************************************)
(* Python values: a tag and a payload.  Mappings (dict) are functions from  *)
(* key strings to such values.                                              *)
(***************************************************************************)
PyNone == [t |-> "none", v |-> 0]
PyBool(b) == [t |-> "bool", v |-> b]
PyStr(s) == [t |-> "str", v |-> s]
PyList(s) == [t |-> "list", v |-> s]
PyNum(n) == [t |-> "num", v |-> n]
PyDict(m) == [t |-> "dict", v |-> m]

\* Python truthiness, as `not x` and `x and y` read it.
Truthy(x) ==
    CASE x.t = "bool" -> x.v
      [] x.t = "none" -> FALSE
      [] x.t = "str"  -> x.v # ""
      [] x.t = "list" -> x.v # <<>>
      [] x.t = "num"  -> x.v # 0
      [] OTHER        -> TRUE

\* dict.get(key, default)
get(d, k, default) == IF k \in DOMAIN d THEN d[k] ELSE default

EmptyDict == [k \in {} |-> PyNone]

(***************************************************************************)
(* Exceptions.  `at` is the length of the request log when the exception    *)
(* object was created: it tells two exception objects of one type apart.    *)
(***************************************************************************)
NoExc == [type |-> "none", at |-> 0, info |-> PyNone]
Exc(type, info) == [type |-> type, at |-> 0, info |-> info]

\* The outcome of a call: what it returned, or what it raised.
Return(val) == [raised |-> FALSE, exc |-> NoExc, val |-> val]
Raise(e) == [raised |-> TRUE, exc |-> e, val |-> EmptyDict]

\* A returned value that is no mapping (a list, a number, ...): `.get` on
\* it raises AttributeError.
ReturnOther(pv) == [raised |-> FALSE, exc |-> NoExc, val |-> EmptyDict, other |-> pv]
IsMapping(out) == "other" \notin DOMAIN out

(***************************************************************************)
(* The host's side of one round trip: the network outcome and, on a         *)
(* success status, the ReturnValue of the reply body.                       *)
(***************************************************************************)
Refused == [net |-> "refused", rv |-> EmptyDict]
StatusError == [net |-> "status_error", rv |-> EmptyDict]
Reply(rv) == [net |-> "ok", rv |-> rv]
NoReply == [net |-> "unasked", rv |-> EmptyDict]

\* _send, line 110: the command envelope; `args or {}` is never missing.
Request(cmd, args) == [cmd |-> cmd, args |-> args]

\* The ReturnValue arrives as a string: `text` is its sequence of JSON
\* tokens.
ReplyText(text) == [net |-> "ok", rv |-> EmptyDict, text |-> text]
IsText(reply) == "text" \in DOMAIN reply

\* session.put raised a timeout: requests' ConnectTimeout is a
\* ConnectionError, its ReadTimeout is not.
ConnectTimeout == [net |-> "connect_timeout", rv |-> EmptyDict]
ReadTimeout == [net |-> "read_timeout", rv |-> EmptyDict]

\* A non-success status, whatever body came with it.
StatusErrorWith(rv) == [net |-> "status_error", rv |-> rv]

DEFAULT_HOST == "127.0.0.1"
DEFAULT_PORT == 30010

\* __init__, line 98: f"http://{host}:{port}/remote/object/call"
BaseUrl(host, port) == <<"http://", host, ":", port, "/remote/object/call">>

\* A message that names the default target, not the client's own.
ConnectMessage_default_url(url) ==
    <<"Cannot connect to Unreal Editor at ", BaseUrl(DEFAULT_HOST, DEFAULT_PORT),
      ". Ensure the editor is running with Remote Control API enabled.">>

\* _send, lines 122-125: the message of the RuntimeError, in its three
\* parts.
ConnectMessage(url) ==
    <<"Cannot connect to Unreal Editor at ", url,
      ". Ensure the editor is running with Remote Control API enabled.">>

(***************************************************************************)
(* json.loads on a sequence of tokens: a scalar, a flat list of scalars or  *)
(* a flat object of scalars; anything else is a JSONDecodeError.  The token *)
(* tables are handed down as S (scalars) and K (keys).                      *)
(***************************************************************************)
KeyOf ==
    [k \in {"\"ok\"", "\"error\"", "\"path\""} |->
        CASE k = "\"ok\"" -> "ok" [] k = "\"error\"" -> "error" [] OTHER -> "path"]

ScalarOf ==
    [tok \in {"true", "false", "null", "42", "\"X\"", "\"P\"", "\"yes\""} |->
        CASE tok = "true"  -> PyBool(TRUE)
          [] tok = "false" -> PyBool(FALSE)
          [] tok = "null"  -> PyNone
          [] tok = "42"    -> PyNum(42)
          [] tok = "\"X\"" -> PyStr("X")
          [] tok = "\"P\"" -> PyStr("P")
          [] OTHER         -> PyStr("yes")]

\* How many members of `width` tokens each, one comma between two, make up
\* `inner`.
Members(inner, width) == (Len(inner) + 1) \div (width + 1)

WellFormedList(inner, S) ==
    \/ inner = <<>>
    \/ /\ (Len(inner) + 1) % 2 = 0
       /\ \A i \in 1..Len(inner) :
            IF i % 2 = 1 THEN inner[i] \in DOMAIN S ELSE inner[i] = ","

WellFormedObject(inner, S, K) ==
    \/ inner = <<>>
    \/ /\ (Len(inner) + 1) % 4 = 0
       /\ \A i \in 1..Len(inner) :
            CASE i % 4 = 1 -> inner[i] \in DOMAIN K
              [] i % 4 = 2 -> inner[i] = ":"
              [] i % 4 = 3 -> inner[i] \in DOMAIN S
              [] OTHER     -> inner[i] = ","

\* The last member of the object that has key k.
LastOf(inner, n, K, k) ==
    CHOOSE j \in 1..n :
        /\ K[inner[4 * j - 3]] = k
        /\ \A h \in (j + 1)..n : K[inner[4 * h - 3]] # k

\* The mapping of a well-formed object: a repeated key keeps its last value.
ObjectOf(inner, n, S, K) ==
    [k \in {K[inner[4 * j - 3]] : j \in 1..n} |-> S[inner[4 * LastOf(inner, n, K, k) - 1]]]

ListOf(inner, n, S) == [j \in 1..n |-> S[inner[2 * j - 1]]]

Inner(text) == SubSeq(text, 2, Len(text) - 1)

JSONDecoder(text, inner, S, K) ==
    CASE Len(text) = 1 /\ text[1] \in DOMAIN S ->
            [ok |-> TRUE, val |-> S[text[1]]]
      [] Len(text) >= 2 /\ text[1] = "{" /\ text[Len(text)] = "}"
            /\ WellFormedObject(inner, S, K) ->
            [ok |-> TRUE, val |-> PyDict(ObjectOf(inner, Members(inner, 3), S, K))]
      [] Len(text) >= 2 /\ text[1] = "[" /\ text[Len(text)] = "]"
            /\ WellFormedList(inner, S) ->
            [ok |-> TRUE, val |-> PyList(ListOf(inner, Members(inner, 1), S))]
      [] OTHER -> [ok |-> FALSE, val |-> text]

\* json.loads(text): ok is FALSE where Python raises JSONDecodeError.
json_loads(text) == JSONDecoder(text, Inner(text), ScalarOf, KeyOf)

\* A decoder that never parses a string and always keeps it under "raw".
decode_keeps_raw(reply) ==
    IF IsText(reply) THEN Return([raw |-> PyStr(reply.text)])
    ELSE Return(reply.rv)

\* _send, lines 130-136: what the try / except around json.loads leaves in
\* rv.
rv_of(parsed, text) ==
    IF ~parsed.ok THEN Return([raw |-> PyStr(text)])
    ELSE IF parsed.val.t = "dict" THEN Return(parsed.val.v)
    ELSE ReturnOther(parsed.val)

\* _send, lines 129-137: a ReturnValue that is a str is parsed, and kept
\* under "raw" when it does not parse; any other ReturnValue is returned as
\* it came.
decode(reply) ==
    IF IsText(reply) THEN rv_of(json_loads(reply.text), reply.text)
    ELSE Return(reply.rv)

\* A transport that decodes whatever body came, without raise_for_status.
send_unchecked_status(reply) ==
    IF reply.net \in {"refused", "connect_timeout"}
    THEN Raise(Exc("RuntimeError", PyStr(ConnectMessage(base_url))))
    ELSE IF reply.net = "read_timeout" THEN Raise(Exc("ReadTimeout", PyNone))
    ELSE decode(reply)

\* _send: requests' ConnectionError (a refused connection, a connect
\* timeout) becomes RuntimeError; a read timeout and raise_for_status's
\* HTTPError are not caught; otherwise the decoded ReturnValue is returned.
_send(reply) ==
    IF reply.net \in {"refused", "connect_timeout"}
    THEN Raise(Exc("RuntimeError", PyStr(ConnectMessage(base_url))))
    ELSE IF reply.net = "read_timeout" THEN Raise(Exc("ReadTimeout", PyNone))
    ELSE IF reply.net = "status_error" THEN Raise(Exc("HTTPError", PyNone))
    ELSE decode(reply)

\* A result model whose missing `ok` means failure.
from_response_default_failure(data) ==
    LET error == get(data, "error", PyNone)
        ok == IF error = PyNone THEN get(data, "ok", PyBool(FALSE)) ELSE PyBool(FALSE)
    IN  [raw |-> data, ok |-> ok, error |-> error]

\* A result model in which an explicit `ok` outranks `error`.
from_response_ok_wins(data) ==
    LET error == get(data, "error", PyNone)
        ok == get(data, "ok", PyBool(error = PyNone))
    IN  [raw |-> data, ok |-> ok, error |-> error]

\* ForgeResult.from_response
from_response(data) ==
    LET error == get(data, "error", PyNone)
        ok == IF error = PyNone THEN get(data, "ok", PyBool(TRUE)) ELSE PyBool(FALSE)
    IN  [raw |-> data, ok |-> ok, error |-> error]

\* execute: _send, then from_response; an exception of _send passes
\* through, and from_response's `data.get` needs a mapping.
execute(reply) ==
    LET data == _send(reply)
    IN  IF data.raised THEN data
        ELSE IF ~IsMapping(data) THEN Raise(Exc("AttributeError", PyNone))
        ELSE Return(from_response(data.val))

(***************************************************************************)
(* The policy gate and the operation surface.  An operation yields the      *)
(* commands it hands to _send, in order, and how the call ends.             *)
(***************************************************************************)
enforce_constitution(reply) == _send(reply)

ClassPath == "/Script/Engine.StaticMeshActor"

\* The arguments the operations send (positions and rotations at their
\* defaults).
Pose == [x |-> PyNum(0), y |-> PyNum(0), z |-> PyNum(0),
         pitch |-> PyNum(0), yaw |-> PyNum(0), roll |-> PyNum(0)]

EnforceRequest ==
    Request("enforce_constitution",
            [action_description |-> PyStr("spawn_actor /Script/Engine.StaticMeshActor")])

SpawnRequest ==
    Request("spawn_actor", [class_path |-> PyStr(ClassPath)] @@ Pose)

\* A gate that ignores the verify switch.
Gated_always(v) == TRUE

\* spawn_actor, line 194: `if self.verify:`
Gated(v) == v

\* A gate that blocks on an `error` field instead of on `allowed`.
Blocked_on_error(chk) == "error" \in DOMAIN chk

\* A gate that blocks unless the reply says `allowed`.
Blocked_when_undecided(chk) == ~Truthy(get(chk, "allowed", PyBool(FALSE)))

\* spawn_actor, line 196: `if not chk.get("allowed", True):`
Blocked(chk) == ~Truthy(get(chk, "allowed", PyBool(TRUE)))

\* spawn_actor, lines 197-198: PermissionError carrying chk.get('violations')
PermissionError(chk) == Exc("PermissionError", get(chk, "violations", PyNone))

\* A gate that keeps the decision of the previous spawn_actor call (read
\* from `last`) and asks the host only when it has none.
spawn_actor_cached(v, chkReply, cmdReply) ==
    IF Gated(v)
    THEN LET cached == last.op = "spawn_actor" /\ last.gate.net = "ok"
             chk == IF cached THEN Return(last.gate.rv)
                    ELSE enforce_constitution(chkReply)
             asked == IF cached THEN <<>> ELSE <<EnforceRequest>>
         IN  IF chk.raised
             THEN [sent |-> asked, out |-> chk]
             ELSE IF ~IsMapping(chk)
             THEN [sent |-> asked, out |-> Raise(Exc("AttributeError", PyNone))]
             ELSE IF Blocked(chk.val)
             THEN [sent |-> asked, out |-> Raise(PermissionError(chk.val))]
             ELSE [sent |-> Append(asked, SpawnRequest), out |-> execute(cmdReply)]
    ELSE [sent |-> <<SpawnRequest>>, out |-> execute(cmdReply)]

\* A gate that goes on to the command when its own round trip raised.
spawn_actor_unguarded_gate(v, chkReply, cmdReply) ==
    IF Gated(v)
    THEN LET chk == enforce_constitution(chkReply)
         IN  IF chk.raised
             THEN [sent |-> <<EnforceRequest, SpawnRequest>>, out |-> execute(cmdReply)]
             ELSE IF ~IsMapping(chk)
             THEN [sent |-> <<EnforceRequest>>,
                   out |-> Raise(Exc("AttributeError", PyNone))]
             ELSE IF Blocked(chk.val)
             THEN [sent |-> <<EnforceRequest>>,
                   out |-> Raise(PermissionError(chk.val))]
             ELSE [sent |-> <<EnforceRequest, SpawnRequest>>,
                   out |-> execute(cmdReply)]
    ELSE [sent |-> <<SpawnRequest>>, out |-> execute(cmdReply)]

spawn_actor(v, chkReply, cmdReply) ==
    IF Gated(v)
    THEN LET chk == enforce_constitution(chkReply)
         IN  IF chk.raised
             THEN [sent |-> <<EnforceRequest>>, out |-> chk]
             ELSE IF ~IsMapping(chk)
             THEN [sent |-> <<EnforceRequest>>,
                   out |-> Raise(Exc("AttributeError", PyNone))]
             ELSE IF Blocked(chk.val)
             THEN [sent |-> <<EnforceRequest>>,
                   out |-> Raise(PermissionError(chk.val))]
             ELSE [sent |-> <<EnforceRequest, SpawnRequest>>,
                   out |-> execute(cmdReply)]
    ELSE [sent |-> <<SpawnRequest>>, out |-> execute(cmdReply)]

\* The operations whose body is `return self.execute("<cmd>", {...})`.
set_actor_transform(cmdReply) ==
    [sent |-> <<Request("set_actor_transform",
                        [object_path |-> PyStr("Actor")] @@ Pose)>>,
     out |-> execute(cmdReply)]

delete_actor(cmdReply) ==
    [sent |-> <<Request("delete_actor", [label |-> PyStr("Actor")])>>,
     out |-> execute(cmdReply)]

\* The mutating operations the caller of the model draws from.
MutatingOps == {"spawn_actor", "set_actor_transform", "delete_actor"}

Operation(op, v, chkReply, cmdReply) ==
    CASE op = "spawn_actor"         -> spawn_actor(v, chkReply, cmdReply)
      [] op = "set_actor_transform" -> set_actor_transform(cmdReply)
      [] op = "delete_actor"        -> delete_actor(cmdReply)

(***************************************************************************)
(* Operations of one command: ping returns what _send returns,              *)
(* create_snapshot goes through execute, run_verification builds a          *)
(* VerificationReport.                                                      *)
(***************************************************************************)
ping(reply) ==
    [sent |-> <<Request("ping", EmptyDict)>>, out |-> _send(reply)]

\* An operation that sends its command again when the first try raised.
create_snapshot_retrying(reply) ==
    LET req == Request("create_snapshot", [snapshot_name |-> PyStr("")])
        r == execute(reply)
    IN  [sent |-> IF r.raised THEN <<req, req>> ELSE <<req>>, out |-> r]

create_snapshot(reply) ==
    [sent |-> <<Request("create_snapshot", [snapshot_name |-> PyStr("")])>>,
     out |-> execute(reply)]

\* A report that takes a missing all_passed for a pass.
VerificationReport_default_pass(data) ==
    [all_passed |-> get(data, "all_passed", PyBool(TRUE)),
     phases_run |-> get(data, "phases_run", PyNum(0)),
     details    |-> get(data, "details", PyList(<<>>))]

\* VerificationReport(all_passed, phases_run, details), lines 157-161.
VerificationReport(data) ==
    [all_passed |-> get(data, "all_passed", PyBool(FALSE)),
     phases_run |-> get(data, "phases_run", PyNum(0)),
     details    |-> get(data, "details", PyList(<<>>))]

\* str(n) and f"{n:.1f}" for the small numbers of the model, as text parts.
Decimal(n) == IF n = 0 THEN "0" ELSE <<"1", "2", "3", "4">>[n]
Fixed1(n) == <<Decimal(n), ".0">>

\* summary, lines 68-69: the header line.
HeaderLine(all_passed, phases_run) ==
    <<"Verification: ", IF Truthy(all_passed) THEN "PASSED" ELSE "FAILED",
      " (", Decimal(phases_run.v), " phases)">>

\* A phase line that prints the same mark whether the phase passed or not.
PhaseLine_same_mark(d) ==
    <<"  ", "U+2713", " [", get(d, "phase", PyStr("?")).v, "] ",
      get(d, "detail", PyStr("")).v, " (">>
    \o Fixed1(get(d, "duration_ms", PyNum(0)).v) \o <<"ms)">>

\* summary, lines 70-73: the line of one entry of details; the check mark
\* and the ballot X are written by their code points.
PhaseLine(d) ==
    <<"  ", IF Truthy(get(d, "passed", PyNone)) THEN "U+2713" ELSE "U+2717",
      " [", get(d, "phase", PyStr("?")).v, "] ",
      get(d, "detail", PyStr("")).v, " (">>
    \o Fixed1(get(d, "duration_ms", PyNum(0)).v) \o <<"ms)">>

\* VerificationReport.summary: the lines that "\n".join puts together.
summary(report) ==
    <<HeaderLine(report.all_passed, report.phases_run)>>
    \o [i \in 1..Len(report.details.v) |-> PhaseLine(report.details.v[i].v)]

\* A runner that always asks for all four phases.
VerificationRequest_all(mask) ==
    Request("run_verification", [phase_mask |-> PyNum(15)])

VerificationRequest(mask) ==
    Request("run_verification", [phase_mask |-> PyNum(mask)])

\* A runner that raises when the report it built did not pass.
run_verification_raising(mask, reply) ==
    LET data == _send(reply)
    IN  [sent |-> <<VerificationRequest(mask)>>,
         out |-> IF data.raised THEN data
                 ELSE IF ~IsMapping(data) THEN Raise(Exc("AttributeError", PyNone))
                 ELSE IF ~Truthy(VerificationReport(data.val).all_passed)
                 THEN Raise(Exc("RuntimeError", PyStr("Verification failed")))
                 ELSE Return(VerificationReport(data.val))]

run_verification(mask, reply) ==
    LET data == _send(reply)
    IN  [sent |-> <<VerificationRequest(mask)>>,
         out |-> IF data.raised THEN data
                 ELSE IF ~IsMapping(data) THEN Raise(Exc("AttributeError", PyNone))
                 ELSE Return(VerificationReport(data.val))]

(***************************************************************************)
(* The transaction scope.                                                   *)
(***************************************************************************)
begin_transaction(reply) == execute(reply)
end_transaction(reply) == execute(reply)
undo_transaction(reply) == execute(reply)

BeginRequest == Request("begin_transaction", [label |-> PyStr("AgentForge")])
EndRequest == Request("end_transaction", EmptyDict)
UndoRequest == Request("undo_transaction", EmptyDict)

\* _TransactionContext.__enter__: the result of begin_transaction is dropped.
__enter__(reply) ==
    LET r == begin_transaction(reply)
    IN  [sent |-> <<BeginRequest>>,
         out |-> IF r.raised THEN r ELSE Return(PyStr("client"))]

\* An exit whose rollback branch lacks its `return` and falls through to
\* the commit.
exit_falls_through(pending, reply) ==
    LET r == end_transaction(reply)
    IN  [sent |-> IF pending # NoExc THEN <<UndoRequest, EndRequest>>
                  ELSE <<EndRequest>>,
         out |-> IF r.raised THEN r ELSE Return(PyBool(FALSE))]

\* An exit that tests `exc_type is None` the wrong way round.
exit_inverted(pending, reply) ==
    LET r == execute(reply)
    IN  [sent |-> IF pending = NoExc THEN <<UndoRequest>> ELSE <<EndRequest>>,
         out |-> IF r.raised THEN r ELSE Return(PyBool(FALSE))]

\* An exit that rolls back whether or not an exception left the body.
exit_always_undoes(pending, reply) ==
    LET r == undo_transaction(reply)
    IN  [sent |-> <<UndoRequest>>,
         out |-> IF r.raised THEN r ELSE Return(PyBool(FALSE))]

\* An exit that raises when its closing command came back failed.
exit_checks_reply(pending, reply) ==
    LET r == execute(reply)
    IN  [sent |-> IF pending # NoExc THEN <<UndoRequest>> ELSE <<EndRequest>>,
         out |-> IF r.raised THEN r
                 ELSE IF ~Truthy(r.val.ok)
                 THEN Raise(Exc("RuntimeError", PyStr("Transaction not closed")))
                 ELSE Return(PyBool(FALSE))]

\* _TransactionContext.__exit__: `pending` is the exception leaving the body
\* (NoExc when exc_type is None).  Returning False lets it propagate.
__exit__(pending, reply) ==
    IF pending # NoExc
    THEN LET r == undo_transaction(reply)
         IN  [sent |-> <<UndoRequest>>,
              out |-> IF r.raised THEN r ELSE Return(PyBool(FALSE))]
    ELSE LET r == end_transaction(reply)
         IN  [sent |-> <<EndRequest>>,
              out |-> IF r.raised THEN r ELSE Return(PyBool(FALSE))]

(***************************************************************************)
(* What the host may answer.                                                *)
(***************************************************************************)
CmdReplies ==
    { Refused, StatusError,
      Reply([ok |-> PyBool(TRUE)]),
      Reply([ok |-> PyBool(FALSE)]),
      Reply([error |-> PyStr("X")]) }

GateReplies ==
    { Refused, StatusError, ReadTimeout, ReplyText(<<"LogTemp: done">>),
      Reply([allowed |-> PyBool(TRUE), violations |-> PyList(<<>>)]),
      Reply([allowed |-> PyBool(FALSE), violations |-> PyList(<<"rule">>)]),
      Reply([allowed |-> PyBool(FALSE)]),
      Reply([error |-> PyStr("X")]) }

(***************************************************************************)
(* What the host may answer to a single-command call: reply objects with    *)
(* every combination of `ok`, `error` and `path`, delivered as a mapping or *)
(* serialised to a string, strings that hold no object, and verification    *)
(* reports.                                                                 *)
(***************************************************************************)
Absent == [t |-> "absent", v |-> 0]

MakeObject(ok, error, path) ==
    LET given == [k \in {"ok", "error", "path"} |->
                    CASE k = "ok" -> ok [] k = "error" -> error [] OTHER -> path]
    IN  [k \in {h \in DOMAIN given : given[h] # Absent} |-> given[k]]

Objects ==
    { MakeObject(ok, error, path) :
        ok \in {Absent, PyBool(TRUE), PyBool(FALSE), PyNone, PyStr("yes")},
        error \in {Absent, PyNone, PyStr("X")},
        path \in {Absent, PyStr("P")} }

\* The host's serialiser: the members in a fixed key order.
KeyOrder == <<"ok", "error", "path">>
KeyToken(k) == CHOOSE tok \in DOMAIN KeyOf : KeyOf[tok] = k
ScalarToken(v) == CHOOSE tok \in DOMAIN ScalarOf : ScalarOf[tok] = v

RECURSIVE DumpMembers(_, _)
DumpMembers(m, ks) ==
    IF ks = <<>> THEN <<>>
    ELSE LET rest == DumpMembers(m, Tail(ks))
             k == Head(ks)
         IN  IF k \notin DOMAIN m THEN rest
             ELSE <<KeyToken(k), ":", ScalarToken(m[k])>>
                  \o (IF rest = <<>> THEN <<>> ELSE <<",">> \o rest)

Dumps(m) == <<"{">> \o DumpMembers(m, KeyOrder) \o <<"}">>

\* Strings that hold valid JSON but no object.
NonObjectTexts == { <<"42">>, <<"null">>, <<"[", "null", ",", "42", "]">>, <<"[", "]">> }

\* Strings that are not JSON.
GarbageTexts == { <<"LogTemp: done">>, <<"{", "\"ok\"", ":">>, <<>> }

TransportFailures ==
    { Refused, ConnectTimeout, ReadTimeout,
      StatusErrorWith(EmptyDict), StatusErrorWith([ok |-> PyBool(TRUE)]) }

WireReplies ==
    TransportFailures
    \cup { Reply(m) : m \in Objects }
    \cup { ReplyText(Dumps(m)) : m \in Objects }
    \cup { ReplyText(t) : t \in NonObjectTexts \cup GarbageTexts }

Phase(name, passed) ==
    PyDict([phase |-> PyStr(name), passed |-> PyBool(passed),
            detail |-> PyStr(""), duration_ms |-> PyNum(0)])

VerifyReplies ==
    TransportFailures
    \cup { Reply([all_passed |-> PyBool(TRUE), phases_run |-> PyNum(1),
                  details |-> PyList(<<Phase("PreFlight", TRUE)>>)]),
           Reply([all_passed |-> PyBool(FALSE), phases_run |-> PyNum(3),
                  details |-> PyList(<<Phase("PreFlight", TRUE),
                                       Phase("Snapshot+Rollback", FALSE),
                                       Phase("PostVerify", TRUE)>>)]),
           Reply([all_passed |-> PyBool(TRUE), phases_run |-> PyNum(4),
                  details |-> PyList(<<Phase("PreFlight", TRUE),
                                       Phase("Snapshot+Rollback", TRUE),
                                       Phase("PostVerify", TRUE),
                                       Phase("BuildCheck", TRUE)>>)]),
           Reply([all_passed |-> PyBool(TRUE), phases_run |-> PyNum(1),
                  details |-> PyList(<<Phase("PreFlight", FALSE)>>)]),
           Reply([error |-> PyStr("X")]),
           ReplyText(<<"LogTemp: done">>),
           ReplyText(<<"42">>) }

\* The phase masks the caller of the model asks for.
Masks == {1, 3, 15}

\* The hosts the client of the model is built for.
BaseUrls == { BaseUrl(DEFAULT_HOST, DEFAULT_PORT), BaseUrl("10.0.0.5", DEFAULT_PORT) }

(***************************************************************************)
(* The state machine.                                                       *)
(***************************************************************************)
Stamp(e, n) == [e EXCEPT !.at = n]

Tagged(reqs, id) ==
    [i \in 1..Len(reqs) |-> [cmd |-> reqs[i].cmd, args |-> reqs[i].args, scope |-> id]]

\* How a call that yields a Result came out, as its caller could tell.
Outcome(out) ==
    IF out.raised THEN "raised" ELSE IF Truthy(out.val.ok) THEN "ok" ELSE "failed"

NoCall ==
    [op |-> "none", sent |-> <<>>, gate |-> NoReply, exc |-> NoExc, result |-> "none"]

\* How the host answered begin_transaction, as the caller of it could tell.
BeginOutcome(reply) ==
    LET r == begin_transaction(reply)
    IN  IF r.raised THEN "raised" ELSE IF Truthy(r.val.ok) THEN "ok" ELSE "failed"

\* The record of a scope: its state, the fate of its begin_transaction,
\* whether an exception left its body, and whether the exception that then
\* reached the caller of the scope was that very exception.
NewScope(o, reply) ==
    [state |-> IF o.out.raised THEN "EnterFailed" ELSE "Open",
     begin |-> BeginOutcome(reply), bodyRaised |-> FALSE, resurfaced |-> FALSE,
     failed |-> FALSE]

\* How the host answered the closing command of __exit__, whose result
\* __exit__ drops.
CloseOutcome(pending, reply) ==
    Outcome(IF pending # NoExc THEN undo_transaction(reply) ELSE end_transaction(reply))

\* The scopes after a call in the body of the innermost open scope came
\* back as `result`: a failed Result is noted on that scope.
Noted(result) ==
    IF stack # <<>> /\ result = "failed"
    THEN [scopes EXCEPT ![stack[Len(stack)]].failed = TRUE]
    ELSE scopes

\* The state a scope is left in by what its __exit__ sent first.
ClosedAs(reqs) ==
    IF reqs = <<>> THEN "Abandoned"
    ELSE IF reqs[1].cmd = "undo_transaction" THEN "RolledBack"
    ELSE IF reqs[1].cmd = "end_transaction" THEN "Committed"
    ELSE "Abandoned"

NoIO == [arg |-> PyNone, wire |-> NoReply, ret |-> PyNone, text |-> <<>>]

\* AgentForgeClient.__init__: verify is the caller's choice (default True).
Init ==
    /\ verify \in BOOLEAN
    /\ sent = <<>>
    /\ stack = <<>>
    /\ scopes = <<>>
    /\ exc = NoExc
    /\ last = NoCall
    /\ base_url = BaseUrl(DEFAULT_HOST, DEFAULT_PORT)
    /\ io = NoIO

\* The caller calls one mutating operation of the surface.
Call ==
    /\ exc = NoExc
    /\ \E op \in MutatingOps, chkReply \in GateReplies, cmdReply \in CmdReplies :
         LET o == Operation(op, verify, chkReply, cmdReply)
             n == Len(sent) + Len(o.sent)
             e == IF o.out.raised THEN Stamp(o.out.exc, n) ELSE NoExc
             asked == \E i \in 1..Len(o.sent) : o.sent[i].cmd = "enforce_constitution"
         IN  /\ n <= MaxSent
             /\ sent' = sent \o Tagged(o.sent, 0)
             /\ exc' = e
             /\ last' = [op |-> op, sent |-> o.sent,
                         gate |-> IF asked THEN chkReply ELSE NoReply, exc |-> e,
                         result |-> Outcome(o.out)]
             /\ scopes' = Noted(Outcome(o.out))
    /\ UNCHANGED <<verify, stack, base_url, io>>

\* `with client.transaction(label):` is entered.
Enter ==
    /\ exc = NoExc
    /\ Len(scopes) < MaxScopes
    /\ Len(stack) < MaxDepth
    /\ \E reply \in CmdReplies :
         LET o == __enter__(reply)
             id == Len(scopes) + 1
             n == Len(sent) + Len(o.sent)
             e == IF o.out.raised THEN Stamp(o.out.exc, n) ELSE NoExc
         IN  /\ n <= MaxSent
             /\ sent' = sent \o Tagged(o.sent, id)
             /\ exc' = e
             /\ stack' = IF o.out.raised THEN stack ELSE Append(stack, id)
             /\ scopes' = Append(scopes, NewScope(o, reply))
             /\ last' = [op |-> "__enter__", sent |-> o.sent, gate |-> NoReply,
                         exc |-> e, result |-> BeginOutcome(reply)]
    /\ UNCHANGED <<verify, base_url, io>>

\* The body of the innermost open scope ends, normally or by the exception
\* now propagating; the with statement re-raises it unless __exit__ returns
\* a true value, and an exception raised by __exit__ takes its place.
Exit ==
    /\ stack # <<>>
    /\ \E reply \in CmdReplies :
         LET o == __exit__(exc, reply)
             id == stack[Len(stack)]
             n == Len(sent) + Len(o.sent)
             e == IF o.out.raised THEN Stamp(o.out.exc, n)
                  ELSE IF Truthy(o.out.val) THEN NoExc ELSE exc
         IN  /\ n <= MaxSent
             /\ sent' = sent \o Tagged(o.sent, id)
             /\ exc' = e
             /\ stack' = SubSeq(stack, 1, Len(stack) - 1)
             /\ scopes' = [scopes EXCEPT ![id] =
                             [@ EXCEPT !.state = ClosedAs(o.sent),
                                       !.bodyRaised = (exc # NoExc),
                                       !.resurfaced = (exc # NoExc /\ e = exc)]]
             /\ last' = [op |-> "__exit__", sent |-> o.sent, gate |-> NoReply,
                         exc |-> e, result |-> CloseOutcome(exc, reply)]
    /\ UNCHANGED <<verify, base_url, io>>

\* The body raises on its own, as example 03 does on a failed spawn.
BodyRaise ==
    /\ exc = NoExc
    /\ stack # <<>>
    /\ exc' = [type |-> "RuntimeError", at |-> Len(sent), info |-> PyStr("Spawn failed")]
    /\ UNCHANGED <<verify, sent, stack, scopes, last, base_url, io>>

\* The caller handles the propagating exception (try/except) and goes on.
Catch ==
    /\ exc # NoExc
    /\ exc' = NoExc
    /\ UNCHANGED <<verify, sent, stack, scopes, last, base_url, io>>

Next == Call \/ Enter \/ Exit \/ BodyRaise \/ Catch

Spec == Init /\ [][Next]_vars

(***************************************************************************)
(* A second caller: single calls of ping, create_snapshot, run_verification *)
(* and the mutating operations, against every reply a host can give and a   *)
(* client built for any of the hosts.                                       *)
(***************************************************************************)
NoReturn == [t |-> "noreturn", v |-> 0]

\* What a call handed back to its caller, as a tagged value.
Returned(kind, out) ==
    IF out.raised THEN NoReturn
    ELSE IF ~IsMapping(out) THEN out.other
    ELSE [t |-> kind, v |-> out.val]

SingleCall(op, arg, o, reply, kind) ==
    LET n == Len(sent) + Len(o.sent)
        e == IF o.out.raised THEN Stamp(o.out.exc, n) ELSE NoExc
    IN  /\ exc = NoExc
        /\ Len(sent) < MaxCallLog
        /\ sent' = sent \o Tagged(o.sent, 0)
        /\ exc' = e
        /\ last' = [op |-> op, sent |-> o.sent, gate |-> NoReply, exc |-> e,
                    result |-> IF kind = "ForgeResult" /\ IsMapping(o.out)
                               THEN Outcome(o.out) ELSE "none"]
        /\ io' = [arg |-> arg, wire |-> reply, ret |-> Returned(kind, o.out),
                  text |-> <<>>]
        /\ UNCHANGED <<verify, stack, scopes, base_url>>

InitCalls ==
    /\ verify \in BOOLEAN
    /\ sent = <<>>
    /\ stack = <<>>
    /\ scopes = <<>>
    /\ exc = NoExc
    /\ last = NoCall
    /\ base_url \in BaseUrls
    /\ io = NoIO

Ping ==
    \E reply \in WireReplies :
        SingleCall("ping", PyNone, ping(reply), reply, "dict")

CreateSnapshot ==
    \E reply \in WireReplies :
        SingleCall("create_snapshot", PyNone, create_snapshot(reply), reply,
                   "ForgeResult")

RunVerification ==
    \E mask \in Masks, reply \in VerifyReplies :
        SingleCall("run_verification", PyNum(mask), run_verification(mask, reply),
                   reply, "VerificationReport")

\* A mutating operation, as in Call, while the log is short.
CallOnce ==
    /\ Len(sent) < MaxCallLog
    /\ Call

\* The caller prints the summary of the report it just got (example 03,
\* line 16).
Summary ==
    /\ last.op = "run_verification"
    /\ io.ret.t = "VerificationReport"
    /\ io.text = <<>>
    /\ io' = [io EXCEPT !.text = summary(io.ret.v)]
    /\ UNCHANGED <<verify, sent, stack, scopes, exc, last, base_url>>

NextCalls == Ping \/ CreateSnapshot \/ RunVerification \/ Summary \/ CallOnce \/ Catch

SpecCalls == InitCalls /\ [][NextCalls]_vars

(***************************************************************************)
(* Properties of the transaction scope.                                     *)
(***************************************************************************)
\* How many requests with command `cmd` the context of scope `id` has sent.
Count(cmd, id) ==
    Cardinality({i \in 1..Len(sent) : sent[i].cmd = cmd /\ sent[i].scope = id})

ScopeIds == 1..Len(scopes)

\* The scope was entered and its __exit__ has run.
Closed(id) == scopes[id].state \in {"Committed", "RolledBack", "Abandoned"}

\* C1: a scope whose body raised has sent exactly one of end_transaction and
\* undo_transaction, and it is undo_transaction.
C1_RaisingScopeSendsOnlyUndo ==
    \A id \in ScopeIds :
        (Closed(id) /\ scopes[id].bodyRaised) =>
            /\ Count("undo_transaction", id) = 1
            /\ Count("end_transaction", id) = 0
            /\ scopes[id].state = "RolledBack"

C1_Witness ==
    \E id \in ScopeIds :
        /\ scopes[id].bodyRaised
        /\ scopes[id].state = "RolledBack"
        /\ Count("undo_transaction", id) = 1
        /\ \E i \in 1..Len(sent) : sent[i].scope = 0

\* C2: a scope whose body completed without raising has sent exactly one
\* end_transaction and no undo_transaction, and went from Open to Committed;
\* while it is Open it has sent neither.
C2_NormalScopeSendsOnlyEnd ==
    \A id \in ScopeIds :
        /\ (Closed(id) /\ ~scopes[id].bodyRaised) =>
              /\ Count("end_transaction", id) = 1
              /\ Count("undo_transaction", id) = 0
              /\ scopes[id].state = "Committed"
        /\ scopes[id].state = "Open" =>
              /\ Count("end_transaction", id) = 0
              /\ Count("undo_transaction", id) = 0

C2_Witness ==
    \E id \in ScopeIds :
        /\ ~scopes[id].bodyRaised
        /\ scopes[id].state = "Committed"
        /\ Count("end_transaction", id) = 1
        /\ \E i \in 1..Len(sent) : sent[i].scope = 0

\* C3: when the body of a scope raised E, the exception that reaches the
\* caller of the scope after the rollback is E itself, whatever became of
\* the undo_transaction call.
C3_OriginalFailureResurfaces ==
    \A id \in ScopeIds :
        (Closed(id) /\ scopes[id].bodyRaised) => scopes[id].resurfaced

\* C4: a scope whose begin_transaction failed (the transport raised, or the
\* reply carried `error` or `ok: false`) is not entered and sends neither
\* end_transaction nor undo_transaction.
C4_BeginFailureFailsEntry ==
    \A id \in ScopeIds :
        scopes[id].begin \in {"raised", "failed"} =>
            /\ scopes[id].state = "EnterFailed"
            /\ Count("end_transaction", id) = 0
            /\ Count("undo_transaction", id) = 0

\* C5: a client never has more than one scope Open (one begin_transaction
\* not yet matched by an end_transaction or undo_transaction).
C5_AtMostOneOpenScope ==
    Cardinality({id \in ScopeIds : scopes[id].state = "Open"}) <= 1

(***************************************************************************)
(* Properties of the policy gate and the operation surface.                 *)
(***************************************************************************)
\* The positions in the last call's requests that carry command `cmd`.
LastSent(cmd) == {i \in 1..Len(last.sent) : last.sent[i].cmd = cmd}

\* The host answered the last call's policy check with `allowed: false`.
LastDenied ==
    /\ last.gate.net = "ok"
    /\ "allowed" \in DOMAIN last.gate.rv
    /\ last.gate.rv.allowed = PyBool(FALSE)

\* C6: a gated operation whose policy check came back `allowed: false`
\* raises PermissionError carrying the reply's violations and sends nothing
\* but the check: the mutating command never reaches the transport.
C6_DeniedActionNotSent ==
    (last.op \in MutatingOps /\ LastDenied) =>
        /\ last.exc.type = "PermissionError"
        /\ last.exc.info = get(last.gate.rv, "violations", PyNone)
        /\ LastSent(last.op) = {}
        /\ Len(last.sent) = 1
        /\ sent[Len(sent)].cmd = "enforce_constitution"

C6_Witness ==
    /\ last.op = "spawn_actor"
    /\ LastDenied
    /\ last.exc.type = "PermissionError"
    /\ last.exc.info = PyList(<<"rule">>)

\* C7: with verify enabled, every mutating operation sends
\* enforce_constitution strictly before its mutating command.
C7_EveryMutatingOpChecksFirst ==
    (verify /\ last.op \in MutatingOps) =>
        \A i \in LastSent(last.op) :
            \E j \in LastSent("enforce_constitution") : j < i

\* C8: with verify disabled, no enforce_constitution is ever sent and every
\* operation call sends exactly the one request carrying its own command.
C8_DirectWhenVerifyOff ==
    ~verify =>
        /\ \A i \in 1..Len(sent) : sent[i].cmd # "enforce_constitution"
        /\ last.op \in MutatingOps =>
              /\ Len(last.sent) = 1
              /\ last.sent[1].cmd = last.op
              /\ sent[Len(sent)].cmd = last.op

C8_Witness ==
    /\ ~verify
    /\ last.op = "spawn_actor"
    /\ last.sent = <<SpawnRequest>>
    /\ Len(sent) >= 2

\* C9: with verify enabled, a run_verification request with all four phase
\* bits (phase_mask 15) is sent by the client before any mutating command.
C9_VerificationBeforeMutation ==
    (verify /\ last.op \in MutatingOps) =>
        \A i \in LastSent(last.op) :
            \E j \in LastSent("run_verification") :
                /\ j < i
                /\ get(last.sent[j].args, "phase_mask", PyNone) = PyNum(15)

\* What a policy reply decides, read off the reply alone: the command may go
\* ahead when a reply arrived and its `allowed` is absent or true.
Permits(reply) ==
    /\ reply.net = "ok"
    /\ "allowed" \in DOMAIN reply.rv => Truthy(reply.rv.allowed)

\* C10: every gated call sends its own enforce_constitution request first,
\* and its mutating command is sent exactly when the reply to that request
\* permits it, whatever earlier calls were answered.
C10_FreshDecisionPerCall ==
    (verify /\ last.op = "spawn_actor") =>
        /\ last.sent # <<>>
        /\ last.sent[1] = EnforceRequest
        /\ Cardinality(LastSent("enforce_constitution")) = 1
        /\ last.gate # NoReply
        /\ (LastSent("spawn_actor") # {}) <=> Permits(last.gate)

\* An allowed spawn was sent, and the next gated call, denied, was not.
C10_Witness ==
    /\ verify
    /\ Len(sent) = 3
    /\ sent[1].cmd = "enforce_constitution"
    /\ sent[2].cmd = "spawn_actor"
    /\ sent[3].cmd = "enforce_constitution"
    /\ last.op = "spawn_actor"
    /\ LastDenied
    /\ LastSent("spawn_actor") = {}

\* A denied call was followed by an allowed one, which was sent.
C10_WitnessDenyThenAllow ==
    /\ verify
    /\ Len(sent) = 3
    /\ sent[1].cmd = "enforce_constitution"
    /\ sent[2].cmd = "enforce_constitution"
    /\ sent[3].cmd = "spawn_actor"
    /\ last.op = "spawn_actor"
    /\ Permits(last.gate)

(***************************************************************************)
(* Properties of the result model, the decoding and the transport, over     *)
(* the single calls of SpecCalls.                                           *)
(***************************************************************************)
SingleOps == {"ping", "create_snapshot", "run_verification"}

\* The latest call was create_snapshot and returned a ForgeResult.
GotResult == last.op = "create_snapshot" /\ io.ret.t = "ForgeResult"

\* C11: a decoded reply with neither `error` nor `ok` gives a Result with
\* ok == true and no error.
C11_DefaultSuccess ==
    (GotResult /\ "error" \notin DOMAIN io.ret.v.raw /\ "ok" \notin DOMAIN io.ret.v.raw) =>
        /\ io.ret.v.ok = PyBool(TRUE)
        /\ io.ret.v.error = PyNone

C11_Witness ==
    /\ GotResult
    /\ io.ret.v.raw = [path |-> PyStr("P")]
    /\ io.ret.v.ok = PyBool(TRUE)

\* C12: a decoded reply with "error": "X" gives a Result with ok == false and
\* error == "X", whatever `ok` the reply carries.
C12_ErrorDominance ==
    (GotResult /\ "error" \in DOMAIN io.ret.v.raw /\ io.ret.v.raw.error.t = "str") =>
        /\ io.ret.v.ok = PyBool(FALSE)
        /\ io.ret.v.error = io.ret.v.raw.error

C12_Witness ==
    /\ GotResult
    /\ io.ret.v.raw = [ok |-> PyBool(TRUE), error |-> PyStr("X")]
    /\ io.ret.v.ok = PyBool(FALSE)
    /\ io.ret.v.error = PyStr("X")

\* C13: every Result has a boolean ok, equal to (error is absent) and
\* (payload.ok is not false), whatever `error` and `ok` the reply carries.
C13_ResultInvariant ==
    GotResult =>
        LET raw == io.ret.v.raw
            absent == get(raw, "error", PyNone) = PyNone
            notFalse == get(raw, "ok", PyBool(TRUE)) # PyBool(FALSE)
        IN  /\ io.ret.v.ok \in {PyBool(TRUE), PyBool(FALSE)}
            /\ io.ret.v.ok = PyBool(absent /\ notFalse)

\* The objects whose serialisation the host's reply string is.
EncodedObjects == {m \in Objects : IsText(io.wire) /\ io.wire.text = Dumps(m)}

\* C14: a ReturnValue string that holds a JSON object decodes to the mapping
\* (and gives the Result) that the same object gives when it is delivered as
\* a structured mapping.
C14_EncodingTransparency ==
    \A m \in EncodedObjects :
        /\ last.op = "ping" =>
              /\ io.ret = PyDict(m)
              /\ io.ret = Returned("dict", ping(Reply(m)).out)
        /\ last.op = "create_snapshot" =>
              /\ io.ret.t = "ForgeResult"
              /\ io.ret.v.raw = m
              /\ io.ret = Returned("ForgeResult", create_snapshot(Reply(m)).out)

C14_Witness ==
    /\ last.op = "ping"
    /\ IsText(io.wire)
    /\ io.wire.text = <<"{", "\"ok\"", ":", "false", ",", "\"error\"", ":", "\"X\"",
                        ",", "\"path\"", ":", "\"P\"", "}">>
    /\ io.ret = PyDict([ok |-> PyBool(FALSE), error |-> PyStr("X"), path |-> PyStr("P")])

\* C15: a reply with a success status never makes the call raise: a string
\* that is not JSON becomes {"raw": string}, and every ReturnValue gives a
\* mapping-shaped payload or a Result.
C15_DecodingNeverRaises ==
    (last.op \in {"ping", "create_snapshot"} /\ io.wire.net = "ok") =>
        /\ last.exc = NoExc
        /\ io.ret.t \in {"dict", "ForgeResult"}
        /\ (IsText(io.wire) /\ io.wire.text \in GarbageTexts /\ last.op = "ping") =>
              io.ret = PyDict([raw |-> PyStr(io.wire.text)])

\* C16: a connection that cannot be established fails the call with the
\* RuntimeError whose message names the client's URL and tells the caller
\* to check that the editor is running; nothing is returned.
C16_ConnectionError ==
    (last.op \in SingleOps /\ io.wire.net = "refused") =>
        /\ last.exc.type = "RuntimeError"
        /\ Len(last.exc.info.v) = 3
        /\ last.exc.info.v[2] = base_url
        /\ last.exc.info.v[3] =
              ". Ensure the editor is running with Remote Control API enabled."
        /\ io.ret = NoReturn

C16_Witness ==
    /\ last.op = "ping"
    /\ io.wire.net = "refused"
    /\ base_url = BaseUrl("10.0.0.5", DEFAULT_PORT)
    /\ last.exc.type = "RuntimeError"
    /\ exc = last.exc

\* C17: an expired timeout, while connecting or while waiting for the reply,
\* surfaces as the same connection error that an unreachable host gives.
C17_TimeoutIsConnectionError ==
    (last.op \in SingleOps /\ io.wire.net \in {"connect_timeout", "read_timeout"}) =>
        /\ last.exc.type = "RuntimeError"
        /\ last.exc.info = PyStr(ConnectMessage(base_url))

\* C18: a non-success status raises HTTPError, which is not the connection
\* error; no Result and no payload is returned and the body is not decoded.
C18_StatusErrorPropagates ==
    (last.op \in SingleOps /\ io.wire.net = "status_error") =>
        /\ last.exc.type = "HTTPError"
        /\ last.exc.type # "RuntimeError"
        /\ io.ret = NoReturn

C18_Witness ==
    /\ last.op = "create_snapshot"
    /\ io.wire = StatusErrorWith([ok |-> PyBool(TRUE)])
    /\ last.exc.type = "HTTPError"
    /\ io.ret = NoReturn

\* The latest call's policy check failed in the transport.
GateFailed ==
    last.gate.net \in {"refused", "connect_timeout", "read_timeout", "status_error"}

\* C19: nothing is retried: every call sends each of its commands once, a
\* single-command call sends one request whatever the outcome, and a
\* failure is raised with no further request after the one that failed.
C19_NoRetry ==
    /\ \A i, j \in 1..Len(last.sent) : last.sent[i].cmd = last.sent[j].cmd => i = j
    /\ last.op \in SingleOps =>
          /\ Len(last.sent) = 1
          /\ last.sent[1].cmd = last.op
          /\ io.wire.net # "ok" => (last.exc # NoExc /\ last.exc.at = Len(sent))
    /\ last.op \in MutatingOps =>
          /\ Len(last.sent) <= 2
          /\ GateFailed => (Len(last.sent) = 1 /\ last.exc # NoExc)

C19_Witness ==
    /\ last.op = "create_snapshot"
    /\ io.wire = ReadTimeout
    /\ Len(last.sent) = 1
    /\ last.exc.type = "ReadTimeout"
    /\ Len(sent) = 1

\* C20: run_verification(mask) sends one run_verification request whose
\* phase_mask is the mask asked for, and the report's phases_run and details
\* are those of the host's reply.
C20_MaskAndReportUnchanged ==
    last.op = "run_verification" =>
        /\ last.sent = <<Request("run_verification", [phase_mask |-> io.arg])>>
        /\ (io.wire.net = "ok" /\ ~IsText(io.wire)) =>
              /\ io.ret.t = "VerificationReport"
              /\ "phases_run" \in DOMAIN io.wire.rv =>
                    io.ret.v.phases_run = io.wire.rv.phases_run
              /\ "details" \in DOMAIN io.wire.rv =>
                    io.ret.v.details = io.wire.rv.details

\* Only PreFlight was asked for and the host reports four phases.
C20_Witness ==
    /\ last.op = "run_verification"
    /\ io.arg = PyNum(1)
    /\ io.ret.t = "VerificationReport"
    /\ io.ret.v.phases_run = PyNum(4)
    /\ Len(io.ret.v.details.v) = 4

(***************************************************************************)
(* Properties of the verification report.                                   *)
(***************************************************************************)
\* The latest call was run_verification and returned a report.
GotReport == last.op = "run_verification" /\ io.ret.t = "VerificationReport"

\* The latest call's reply was a structured mapping.
GotMapping == io.wire.net = "ok" /\ ~IsText(io.wire)

\* C21: in every report whose phases_run equals the number of details,
\* all_passed is the conjunction of the details' `passed`.
C21_AllPassedIsConjunction ==
    (GotReport /\ io.ret.v.phases_run = PyNum(Len(io.ret.v.details.v))) =>
        io.ret.v.all_passed =
            PyBool(\A i \in 1..Len(io.ret.v.details.v) :
                      io.ret.v.details.v[i].v.passed = PyBool(TRUE))

\* How many of the four phase bits a mask has set.
BitCount(mask) ==
    (mask % 2) + ((mask \div 2) % 2) + ((mask \div 4) % 2) + ((mask \div 8) % 2)

\* C22: a report's phases_run is at most four and at most the number of
\* phases the mask asked for.
C22_PhasesRunWithinMask ==
    GotReport =>
        /\ io.ret.v.phases_run.v <= 4
        /\ io.ret.v.phases_run.v <= BitCount(io.arg.v)

\* C23: a reply that does not say all_passed: true makes run_verification
\* return the report, raise nothing and send nothing after its one request.
C23_FailedReportIsReturned ==
    (last.op = "run_verification" /\ GotMapping
        /\ get(io.wire.rv, "all_passed", PyBool(FALSE)) # PyBool(TRUE)) =>
        /\ last.exc = NoExc
        /\ io.ret.t = "VerificationReport"
        /\ io.ret.v.all_passed = get(io.wire.rv, "all_passed", PyBool(FALSE))
        /\ Len(last.sent) = 1
        /\ last.sent[1].cmd = "run_verification"
        /\ sent[Len(sent)].cmd = "run_verification"

C23_Witness ==
    /\ GotReport
    /\ io.ret.v.all_passed = PyBool(FALSE)
    /\ io.ret.v.phases_run = PyNum(3)
    /\ exc = NoExc
    /\ Len(sent) = 1

\* C29: a reply without all_passed gives all_passed false, without
\* phases_run gives 0, without details gives the empty list, for mappings
\* and for unparsable strings; all_passed is true only if the host said so.
C29_ReportFailsClosed ==
    last.op = "run_verification" =>
        /\ GotMapping =>
              /\ io.ret.t = "VerificationReport"
              /\ "all_passed" \notin DOMAIN io.wire.rv =>
                    io.ret.v.all_passed = PyBool(FALSE)
              /\ "phases_run" \notin DOMAIN io.wire.rv =>
                    io.ret.v.phases_run = PyNum(0)
              /\ "details" \notin DOMAIN io.wire.rv =>
                    io.ret.v.details = PyList(<<>>)
        /\ (IsText(io.wire) /\ io.wire.text \in GarbageTexts) =>
              io.ret = [t |-> "VerificationReport",
                        v |-> [all_passed |-> PyBool(FALSE), phases_run |-> PyNum(0),
                               details |-> PyList(<<>>)]]
        /\ (GotReport /\ io.ret.v.all_passed = PyBool(TRUE)) =>
              /\ GotMapping
              /\ "all_passed" \in DOMAIN io.wire.rv
              /\ io.wire.rv.all_passed = PyBool(TRUE)

C29_Witness ==
    /\ GotReport
    /\ io.wire = Reply([error |-> PyStr("X")])
    /\ io.ret.v.all_passed = PyBool(FALSE)
    /\ io.ret.v.phases_run = PyNum(0)
    /\ io.ret.v.details = PyList(<<>>)

\* The host ran three of the four phases asked for and the second failed.
ThreeOfFour ==
    Reply([all_passed |-> PyBool(FALSE), phases_run |-> PyNum(3),
           details |-> PyList(<<Phase("PreFlight", TRUE),
                                Phase("Snapshot+Rollback", FALSE),
                                Phase("PostVerify", TRUE)>>)])

\* C24: for mask 15 and a host that reports three phases, one of them
\* failed, the report has all_passed false and phases_run 3; every summary
\* has a header that reads FAILED exactly when all_passed is false and then
\* one line per reported phase, in order, whose mark tells a failed phase
\* from a passed one.
C24_SummaryListsPhases ==
    (last.op = "run_verification" /\ io.text # <<>>) =>
        LET details == io.ret.v.details.v
        IN  /\ (io.arg = PyNum(15) /\ io.wire = ThreeOfFour) =>
                  /\ io.ret.v.all_passed = PyBool(FALSE)
                  /\ io.ret.v.phases_run = PyNum(3)
                  /\ Len(io.text) = 4
            /\ Len(io.text) = 1 + Len(details)
            /\ (io.text[1][2] = "FAILED") <=> (io.ret.v.all_passed # PyBool(TRUE))
            /\ io.text[1][2] \in {"FAILED", "PASSED"}
            /\ \A i \in 1..Len(details) :
                  /\ io.text[i + 1][4] = details[i].v.phase.v
                  /\ (io.text[i + 1][2] = "U+2717") <=> (details[i].v.passed # PyBool(TRUE))
                  /\ (io.text[i + 1][2] = "U+2713") <=> (details[i].v.passed = PyBool(TRUE))

C24_Witness ==
    /\ last.op = "run_verification"
    /\ io.arg = PyNum(15)
    /\ io.wire = ThreeOfFour
    /\ Len(io.text) = 4
    /\ io.text[1] = <<"Verification: ", "FAILED", " (", "3", " phases)">>
    /\ io.text[3] = <<"  ", "U+2717", " [", "Snapshot+Rollback", "] ", "", " (", "0", ".0", "ms)">>
    /\ io.text[2][2] = "U+2713"

(***************************************************************************)
(* Properties of failed replies inside and at the end of a scope, and of    *)
(* the gate on undecided and failed policy checks.                          *)
(***************************************************************************)
\* C25: a scope in whose body a command came back as a failed Result, and
\* whose body did not raise, sends end_transaction and no undo_transaction;
\* undo_transaction is sent only by a scope whose body raised.
C25_FailedResultDoesNotRollBack ==
    \A id \in ScopeIds :
        /\ (scopes[id].failed /\ scopes[id].state = "Open") =>
              /\ Count("undo_transaction", id) = 0
              /\ Count("end_transaction", id) = 0
        /\ (scopes[id].failed /\ Closed(id) /\ ~scopes[id].bodyRaised) =>
              /\ Count("end_transaction", id) = 1
              /\ Count("undo_transaction", id) = 0
              /\ scopes[id].state = "Committed"
        /\ Count("undo_transaction", id) > 0 => scopes[id].bodyRaised

C25_Witness ==
    \E id \in ScopeIds :
        /\ scopes[id].failed
        /\ ~scopes[id].bodyRaised
        /\ scopes[id].state = "Committed"
        /\ Count("end_transaction", id) = 1
        /\ Len(sent) = 3
        /\ sent[2].scope = 0
        /\ exc = NoExc

\* What the policy reply of the latest call decoded to.
GateAnswer == enforce_constitution(last.gate)

\* The policy reply of the latest call is a mapping without `allowed`.
Undecided ==
    /\ last.gate.net = "ok"
    /\ IsMapping(GateAnswer)
    /\ "allowed" \notin DOMAIN GateAnswer.val

\* C26: with verify on, a policy reply without `allowed` does not block
\* spawn_actor: the command is sent after the check and any exception is
\* the command's own; PermissionError is raised only for a reply whose
\* `allowed` is present and falsy.
C26_GateFailsOpen ==
    (verify /\ last.op = "spawn_actor") =>
        /\ Undecided =>
              /\ last.sent = <<EnforceRequest, SpawnRequest>>
              /\ last.exc.type \notin {"PermissionError", "AttributeError"}
              /\ last.exc # NoExc => (last.result = "raised" /\ last.exc.at = Len(sent))
        /\ last.exc.type = "PermissionError" =>
              /\ last.gate.net = "ok"
              /\ IsMapping(GateAnswer)
              /\ "allowed" \in DOMAIN GateAnswer.val
              /\ ~Truthy(GateAnswer.val.allowed)

C26_Witness ==
    /\ verify
    /\ last.op = "spawn_actor"
    /\ last.gate = Reply([error |-> PyStr("X")])
    /\ last.sent = <<EnforceRequest, SpawnRequest>>
    /\ last.result = "ok"
    /\ exc = NoExc

\* The gate also lets through a reply that did not parse.
C26_WitnessUnparsable ==
    /\ verify
    /\ last.op = "spawn_actor"
    /\ IsText(last.gate)
    /\ GateAnswer.val = [raw |-> PyStr(<<"LogTemp: done">>)]
    /\ last.sent = <<EnforceRequest, SpawnRequest>>
    /\ last.exc = NoExc

\* C27: when the policy check's round trip raised, that exception is the
\* call's and only the check was sent; the mutating command of a gated call
\* is sent only after a policy reply arrived.
C27_GateFailurePropagates ==
    last.op \in MutatingOps =>
        /\ GateFailed =>
              /\ last.exc # NoExc
              /\ last.exc.type =
                    (CASE last.gate.net \in {"refused", "connect_timeout"} -> "RuntimeError"
                       [] last.gate.net = "read_timeout" -> "ReadTimeout"
                       [] OTHER -> "HTTPError")
              /\ last.result = "raised"
              /\ last.sent = <<EnforceRequest>>
              /\ LastSent(last.op) = {}
              /\ sent[Len(sent)].cmd = "enforce_constitution"
        /\ (verify /\ last.op = "spawn_actor" /\ LastSent("spawn_actor") # {}) =>
              last.gate.net = "ok"

C27_Witness ==
    /\ verify
    /\ last.op = "spawn_actor"
    /\ last.gate = ReadTimeout
    /\ last.exc.type = "ReadTimeout"
    /\ exc = last.exc
    /\ last.sent = <<EnforceRequest>>
    /\ Len(sent) = 2

\* The innermost open scope, whose body the latest call belongs to.
Innermost == stack[Len(stack)]

\* C28: when the first call in a scope is a spawn_actor that the gate
\* denies, the exit of the scope leaves the log ending in begin_transaction,
\* enforce_constitution, undo_transaction and the PermissionError is what
\* the caller of the scope gets.
C28_DeniedSpawnInScope ==
    [][ ( /\ stack # <<>>
          /\ Len(stack') < Len(stack)
          /\ exc.type = "PermissionError"
          /\ Len(sent) >= 2
          /\ sent[Len(sent) - 1].cmd = "begin_transaction"
          /\ sent[Len(sent) - 1].scope = Innermost )
        => ( /\ sent[Len(sent)].cmd = "enforce_constitution"
             /\ sent' = Append(sent, [cmd |-> "undo_transaction", args |-> EmptyDict,
                                      scope |-> Innermost])
             /\ exc' = exc ) ]_vars

\* The scope whose __exit__ ran last.
JustClosed == sent[Len(sent)].scope

\* C30: when the closing command of a scope came back as a failed reply,
\* __exit__ raised nothing of its own and sent nothing after it, and the
\* scope is Committed (after end_transaction) or RolledBack (after
\* undo_transaction).
C30_ExitIgnoresClosingReply ==
    (last.op = "__exit__" /\ last.result = "failed") =>
        /\ Len(last.sent) = 1
        /\ Count("end_transaction", JustClosed) + Count("undo_transaction", JustClosed) = 1
        /\ IF scopes[JustClosed].bodyRaised
           THEN /\ scopes[JustClosed].state = "RolledBack"
                /\ last.sent[1].cmd = "undo_transaction"
                /\ scopes[JustClosed].resurfaced
                /\ last.exc.at < Len(sent)
           ELSE /\ scopes[JustClosed].state = "Committed"
                /\ last.sent[1].cmd = "end_transaction"
                /\ last.exc = NoExc

C30_Witness ==
    /\ last.op = "__exit__"
    /\ last.result = "failed"
    /\ scopes[JustClosed].state = "Committed"
    /\ sent[Len(sent)].cmd = "end_transaction"
    /\ exc = NoExc

\* The same after a rollback: the body's exception goes on.
C30_WitnessRolledBack ==
    /\ last.op = "__exit__"
    /\ last.result = "failed"
    /\ scopes[JustClosed].state = "RolledBack"
    /\ sent[Len(sent)].cmd = "undo_transaction"
    /\ exc.type = "PermissionError"

====
